---- MODULE Spec2Model ----
(***************************************************************************)
(* Unciv force rating calculator: the uniques parser                       *)
(* (uniques_parser.parse_unit_modifiers), the force formula                *)
(* (main.compute_base_force) and the rank locator                          *)
(* (force_comparison.find_force_bounds).                                   *)
(*                                                                         *)
(* Text is a sequence of one-character strings, so that substring tests,   *)
(* lower-casing, stripping and the regular expressions of the parser are   *)
(* computed character by character as Python computes them.                *)
(* Floats are modelled exactly: percents and forces of the table are       *)
(* integers, the multiplicative accumulator is a reduced fraction          *)
(* <<numerator, denominator>>, and math.pow is kept symbolic (the start    *)
(* path and its argument are recorded, not evaluated).                     *)
(***************************************************************************)
EXTENDS Integers, Sequences, FiniteSets, TLC

VARIABLES pc, unit, parsed, args, force, query, bracket, harness, console

vars == <<pc, unit, parsed, args, force, query, bracket, harness, console>>

(***************************************************************************)
(* Characters and strings                                                  *)
(***************************************************************************)
Whitespace == {" ", "\t", "\n"}

Digits == {"0", "1", "2", "3", "4", "5", "6", "7", "8", "9"}

Signs == {"+", "-"}

UpperCase ==
  <<"A","B","C","D","E","F","G","H","I","J","K","L","M",
    "N","O","P","Q","R","S","T","U","V","W","X","Y","Z">>

LowerCase ==
  <<"a","b","c","d","e","f","g","h","i","j","k","l","m",
    "n","o","p","q","r","s","t","u","v","w","x","y","z">>

LowerChar(c) ==
  IF \E i \in 1..Len(UpperCase) : UpperCase[i] = c
  THEN LowerCase[CHOOSE i \in 1..Len(UpperCase) : UpperCase[i] = c]
  ELSE c

\* str.lower()
Lower(s) == [i \in 1..Len(s) |-> LowerChar(s[i])]

\* " ".join(list)
RECURSIVE JoinSpace(_)
JoinSpace(list) ==
  IF list = <<>> THEN <<>>
  ELSE IF Len(list) = 1 THEN list[1]
  ELSE list[1] \o <<" ">> \o JoinSpace(Tail(list))

\* text[p:p+len(lit)] == lit
HasAt(text, p, lit) ==
  /\ p >= 1
  /\ p + Len(lit) - 1 <= Len(text)
  /\ \A k \in 1..Len(lit) : text[p + k - 1] = lit[k]

\* Python's  pat in text
Contains(pat, text) == \E i \in 1..(Len(text) - Len(pat) + 1) : HasAt(text, i, pat)

SetMin(S) == CHOOSE x \in S : \A y \in S : x <= y

SetMax(S) == CHOOSE x \in S : \A y \in S : x >= y

\* str.strip()
Strip(s) ==
  LET keep == {i \in 1..Len(s) : s[i] \notin Whitespace}
  IN IF keep = {} THEN <<>> ELSE SubSeq(s, SetMin(keep), SetMax(keep))

DigitValue(c) ==
  CASE c = "0" -> 0 [] c = "1" -> 1 [] c = "2" -> 2 [] c = "3" -> 3
    [] c = "4" -> 4 [] c = "5" -> 5 [] c = "6" -> 6 [] c = "7" -> 7
    [] c = "8" -> 8 [] c = "9" -> 9

RECURSIVE DigitsToInt(_)
DigitsToInt(s) ==
  IF s = <<>> THEN 0
  ELSE 10 * DigitsToInt(SubSeq(s, 1, Len(s) - 1)) + DigitValue(s[Len(s)])

\* int(s) / float(s) of an optionally signed run of digits
SignedToInt(s) ==
  IF s[1] = "-" THEN 0 - DigitsToInt(Tail(s))
  ELSE IF s[1] = "+" THEN DigitsToInt(Tail(s))
  ELSE DigitsToInt(s)

(***************************************************************************)
(* Regular expression pieces.  A piece maps the set P of positions the     *)
(* match may have reached (the index of the next character to read) to     *)
(* the set it may reach after the piece, which covers the backtracking of  *)
(* Python's re.                                                            *)
(***************************************************************************)
\* first position >= p whose character is not in class C (Len(text)+1 if none)
RECURSIVE RunEnd(_, _, _)
RunEnd(text, p, C) ==
  IF p > Len(text) \/ text[p] \notin C THEN p ELSE RunEnd(text, p + 1, C)

\* a literal
ReLit(text, P, lit) == {p + Len(lit) : p \in {q \in P : HasAt(text, q, lit)}}

\* [C]?
ReOpt(text, P, C) == P \cup {p + 1 : p \in {q \in P : q <= Len(text) /\ text[q] \in C}}

\* [C]*
ReStar(text, P, C) == UNION {p..RunEnd(text, p, C) : p \in P}

\* [C]+
RePlus(text, P, C) == UNION {(p + 1)..RunEnd(text, p, C) : p \in P}

\* first position >= p whose character is in class C (Len(text)+1 if none)
RECURSIVE NextIn(_, _, _)
NextIn(text, p, C) ==
  IF p > Len(text) \/ text[p] \in C THEN p ELSE NextIn(text, p + 1, C)

\* "city"
KwCity ==
  <<"c","i","t","y">>
\* "when attacking"
KwWhenAttacking ==
  <<"w","h","e","n"," ","a","t","t","a","c","k","i","n","g">>
\* "when defending"
KwWhenDefending ==
  <<"w","h","e","n"," ","d","e","f","e","n","d","i","n","g">>
\* "strength"
KwStrength ==
  <<"s","t","r","e","n","g","t","h">>
\* "paradrop"
KwParadrop ==
  <<"p","a","r","a","d","r","o","p">>
\* "paratroop"
KwParatroop ==
  <<"p","a","r","a","t","r","o","o","p">>
\* "can paradrop"
KwCanParadrop ==
  <<"c","a","n"," ","p","a","r","a","d","r","o","p">>
\* "paratrooper"
KwParatrooper ==
  <<"p","a","r","a","t","r","o","o","p","e","r">>
\* "must set up to ranged attack"
KwMustSetUpToRangedAttack ==
  <<"m","u","s","t"," ","s","e","t"," ","u","p"," ","t","o"," ","r","a","n","g","e","d"," ","a","t","t","a","c","k">>
\* "must set up"
KwMustSetUp ==
  <<"m","u","s","t"," ","s","e","t"," ","u","p">>
\* "must set up to"
KwMustSetUpTo ==
  <<"m","u","s","t"," ","s","e","t"," ","u","p"," ","t","o">>
\* "self-destruct"
KwSelfDestructHyphen ==
  <<"s","e","l","f","-","d","e","s","t","r","u","c","t">>
\* "self destruct"
KwSelfDestructSpace ==
  <<"s","e","l","f"," ","d","e","s","t","r","u","c","t">>
\* "suicide"
KwSuicide ==
  <<"s","u","i","c","i","d","e">>
\* "explodes when attacking"
KwExplodesWhenAttacking ==
  <<"e","x","p","l","o","d","e","s"," ","w","h","e","n"," ","a","t","t","a","c","k","i","n","g">>
\* "extra"
KwExtra ==
  <<"e","x","t","r","a">>
\* "attack"
KwAttack ==
  <<"a","t","t","a","c","k">>
\* "per"
KwPer ==
  <<"p","e","r">>
\* "turn"
KwTurn ==
  <<"t","u","r","n">>
\* "per turn"
KwPerTurn ==
  <<"p","e","r"," ","t","u","r","n">>
\* "in one turn"
KwInOneTurn ==
  <<"i","n"," ","o","n","e"," ","t","u","r","n">>
\* "extra attack"
KwExtraAttack ==
  <<"e","x","t","r","a"," ","a","t","t","a","c","k">>
\* "attack twice"
KwAttackTwice ==
  <<"a","t","t","a","c","k"," ","t","w","i","c","e">>
\* "can attack twice"
KwCanAttackTwice ==
  <<"c","a","n"," ","a","t","t","a","c","k"," ","t","w","i","c","e">>
\* "attacks twice"
KwAttacksTwice ==
  <<"a","t","t","a","c","k","s"," ","t","w","i","c","e">>
\* "water"
KwWater ==
  <<"w","a","t","e","r">>
\* "[+50]% Strength <vs cities>"
UqVsCities ==
  <<"[","+","5","0","]","%"," ","S","t","r","e","n","g","t","h"," ","<","v","s"," ","c","i","t","i","e","s",">">>
\* "[+50]% Strength <vs [City]>"
UqVsCity ==
  <<"[","+","5","0","]","%"," ","S","t","r","e","n","g","t","h"," ","<","v","s"," ","[","C","i","t","y","]",">">>
\* "[+10]% Strength <vs [Mounted] units>"
UqVsMounted ==
  <<"[","+","1","0","]","%"," ","S","t","r","e","n","g","t","h"," ","<","v","s"," ","[","M","o","u","n","t","e","d","]"," ","u","n","i","t","s",">">>
\* "[+20]% Strength <when attacking>"
UqWhenAttacking ==
  <<"[","+","2","0","]","%"," ","S","t","r","e","n","g","t","h"," ","<","w","h","e","n"," ","a","t","t","a","c","k","i","n","g",">">>
\* "[-25]% Strength <when defending>"
UqWhenDefending ==
  <<"[","-","2","5","]","%"," ","S","t","r","e","n","g","t","h"," ","<","w","h","e","n"," ","d","e","f","e","n","d","i","n","g",">">>
\* "[+30] % Strength <vs [Armor] units>"
UqSpacedPercent ==
  <<"[","+","3","0","]"," ","%"," ","S","t","r","e","n","g","t","h"," ","<","v","s"," ","[","A","r","m","o","r","]"," ","u","n","i","t","s",">">>
\* "Self-destructs when attacking"
UqSelfDestructs ==
  <<"S","e","l","f","-","d","e","s","t","r","u","c","t","s"," ","w","h","e","n"," ","a","t","t","a","c","k","i","n","g">>
\* "No terrain bonus when defending"
UqNoBonusDefending ==
  <<"N","o"," ","t","e","r","r","a","i","n"," ","b","o","n","u","s"," ","w","h","e","n"," ","d","e","f","e","n","d","i","n","g">>
\* "Nuclear weapon of Strength [2]"
UqNuclearWeapon ==
  <<"N","u","c","l","e","a","r"," ","w","e","a","p","o","n"," ","o","f"," ","S","t","r","e","n","g","t","h"," ","[","2","]">>
\* "May Paradrop up to [5] tiles"
UqParadrop ==
  <<"M","a","y"," ","P","a","r","a","d","r","o","p"," ","u","p"," ","t","o"," ","[","5","]"," ","t","i","l","e","s">>
\* "Must set up to ranged attack"
UqMustSetUp ==
  <<"M","u","s","t"," ","s","e","t"," ","u","p"," ","t","o"," ","r","a","n","g","e","d"," ","a","t","t","a","c","k">>
\* "1 extra attack"
UqOneExtraAttack ==
  <<"1"," ","e","x","t","r","a"," ","a","t","t","a","c","k">>
\* "0 extra attacks"
UqZeroExtraAttacks ==
  <<"0"," ","e","x","t","r","a"," ","a","t","t","a","c","k","s">>
\* "Makes 3 attacks per turn"
UqThreeAttacksPerTurn ==
  <<"M","a","k","e","s"," ","3"," ","a","t","t","a","c","k","s"," ","p","e","r"," ","t","u","r","n">>
\* "Makes 1 attacks per turn"
UqOneAttackPerTurn ==
  <<"M","a","k","e","s"," ","1"," ","a","t","t","a","c","k","s"," ","p","e","r"," ","t","u","r","n">>
\* "Can attack twice"
UqCanAttackTwice ==
  <<"C","a","n"," ","a","t","t","a","c","k"," ","t","w","i","c","e">>
\* "[1] additional attacks per turn"
UqAdditionalAttacks ==
  <<"[","1","]"," ","a","d","d","i","t","i","o","n","a","l"," ","a","t","t","a","c","k","s"," ","p","e","r"," ","t","u","r","n">>
\* "Can move after attacking"
UqMoveAfterAttacking ==
  <<"C","a","n"," ","m","o","v","e"," ","a","f","t","e","r"," ","a","t","t","a","c","k","i","n","g">>
\* "[+40]% Strength vs cities"
UqMalformedNoTag ==
  <<"[","+","4","0","]","%"," ","S","t","r","e","n","g","t","h"," ","v","s"," ","c","i","t","i","e","s">>
\* "[+]% Strength <vs cities>"
UqMalformedNoDigits ==
  <<"[","+","]","%"," ","S","t","r","e","n","g","t","h"," ","<","v","s"," ","c","i","t","i","e","s",">">>
\* "[+25]% Strength <>"
UqMalformedEmptyTag ==
  <<"[","+","2","5","]","%"," ","S","t","r","e","n","g","t","h"," ","<",">">>
\* "[+15]% Strength <vs [City] when attacking>"
UqCityWhenAttacking ==
  <<"[","+","1","5","]","%"," ","S","t","r","e","n","g","t","h"," ","<","v","s"," ","[","C","i","t","y","]"," ","w","h","e","n"," ","a","t","t","a","c","k","i","n","g",">">>
\* "[+35]% Strength <when defending in [City]>"
UqCityWhenDefending ==
  <<"[","+","3","5","]","%"," ","S","t","r","e","n","g","t","h"," ","<","w","h","e","n"," ","d","e","f","e","n","d","i","n","g"," ","i","n"," ","[","C","i","t","y","]",">">>
\* "WaterRanged"
TyWaterRanged ==
  <<"W","a","t","e","r","R","a","n","g","e","d">>
\* "WaterMelee"
TyWaterMelee ==
  <<"W","a","t","e","r","M","e","l","e","e">>
\* "Submarine"
TySubmarine ==
  <<"S","u","b","m","a","r","i","n","e">>
\* "Aircraft Carrier"
TyCarrier ==
  <<"A","i","r","c","r","a","f","t"," ","C","a","r","r","i","e","r">>
\* "Warship"
TyWarship ==
  <<"W","a","r","s","h","i","p">>
\* "Sword"
TySword ==
  <<"S","w","o","r","d">>
\* "Archery"
TyArchery ==
  <<"A","r","c","h","e","r","y">>
(***************************************************************************)
(* uniques_parser.parse_unit_modifiers                                     *)
(***************************************************************************)
NoMatch == [found |-> FALSE]

\* dict.get(key, default)
Get(d, key, default) == IF key \in DOMAIN d THEN d[key] ELSE default

\* text = " ".join(uniques_list + promotions).lower()
CorpusText(u) ==
  LET uniques_list == Get(u, "uniques", <<>>)
      promotions == Get(u, "promotions", <<>>)
  IN Lower(JoinSpace(uniques_list \o promotions))

\* A match at position i of
\*   form 1:  \[([+-]?\d+)\]\%?\s*%?\s*strength\s*<([^>]+)>
\*   form 2:  \[([+-]?\d+)\]\%?\s*strength\s*<([^>]+)>
PercentMatch(text, i, form) ==
  LET p0 == ReLit(text, {i}, <<"[">>)
      p1 == ReOpt(text, p0, Signs)
      p2 == RePlus(text, p1, Digits)
      p3 == ReLit(text, p2, <<"]">>)
      p4 == ReOpt(text, p3, {"%"})
      p5 == ReStar(text, p4, Whitespace)
      p6 == IF form = 1 THEN ReStar(text, ReOpt(text, p5, {"%"}), Whitespace) ELSE p5
      p7 == ReLit(text, p6, KwStrength)
      p8 == ReStar(text, p7, Whitespace)
      p9 == ReLit(text, p8, <<"<">>)
      open == {t \in p9 : LET g == NextIn(text, t, {">"}) IN g > t /\ g <= Len(text)}
  IN IF open = {} THEN NoMatch
     ELSE LET t == SetMin(open)
              g == NextIn(text, t, {">"})
              close == SetMin(p3) - 1
          IN [found |-> TRUE,
              percent |-> SignedToInt(SubSeq(text, i + 1, close - 1)),
              tag |-> Strip(SubSeq(text, t, g - 1)),
              end |-> g + 1]

\* for m in re.finditer(form, text): percent_entries.append((percent, tag))
RECURSIVE FindPercentEntries(_, _, _)
FindPercentEntries(text, pos, form) ==
  LET i == NextIn(text, pos, {"["})
  IN IF i > Len(text) THEN <<>>
     ELSE LET m == PercentMatch(text, i, form)
          IN IF m.found
             THEN <<(<<m.percent, m.tag>>)>> \o FindPercentEntries(text, m.end, form)
             ELSE FindPercentEntries(text, i + 1, form)

\* the list the two finditer loops build, in order
percent_entries(text) == FindPercentEntries(text, 1, 1) \o FindPercentEntries(text, 1, 2)

\* the bucket loop with the test for a city made after the tests for the phrases
ClassifyCityLast(tag, text) ==
  IF \/ Contains(KwWhenAttacking, tag)
     \/ (Contains(KwWhenAttacking, text) /\ ~Contains(KwWhenDefending, tag))
  THEN "attack_bonus"
  ELSE IF Contains(KwWhenDefending, tag) \/ Contains(KwWhenDefending, text)
       THEN "defend_bonus"
  ELSE IF Contains(KwCity, tag) THEN "city_attack_bonus"
  ELSE "attack_vs_bonus"

\* the if/elif chain of the bucket loop
Classify(tag, text) ==
  IF Contains(KwCity, tag) THEN "city_attack_bonus"
  ELSE IF \/ Contains(KwWhenAttacking, tag)
          \/ (Contains(KwWhenAttacking, text) /\ ~Contains(KwWhenDefending, tag))
       THEN "attack_bonus"
  ELSE IF Contains(KwWhenDefending, tag) \/ Contains(KwWhenDefending, text)
       THEN "defend_bonus"
  ELSE "attack_vs_bonus"

\* what the loop over percent_entries adds to one bucket
RECURSIVE BucketSum(_, _, _)
BucketSum(entries, text, bucket) ==
  IF entries = <<>> THEN 0
  ELSE (IF Classify(entries[1][2], text) = bucket THEN entries[1][1] ELSE 0)
       + BucketSum(Tail(entries), text, bucket)

paradrop_able(text) ==
  \/ Contains(KwParadrop, text)
  \/ Contains(KwParatroop, text)
  \/ Contains(KwCanParadrop, text)
  \/ Contains(KwParatrooper, text)

must_set_up(text) ==
  \/ Contains(KwMustSetUpToRangedAttack, text)
  \/ Contains(KwMustSetUp, text)
  \/ Contains(KwMustSetUpTo, text)

self_destructs(text) ==
  \/ Contains(KwSelfDestructHyphen, text)
  \/ Contains(KwSelfDestructSpace, text)
  \/ Contains(KwSuicide, text)
  \/ Contains(KwExplodesWhenAttacking, text)

\* after the digits: \s+extra\s+attacks?
ExtraAttacksTail(text, e) ==
  LET q1 == RePlus(text, {e}, Whitespace)
      q2 == ReLit(text, q1, KwExtra)
      q3 == RePlus(text, q2, Whitespace)
      q4 == ReLit(text, q3, KwAttack)
  IN ReOpt(text, q4, {"s"})

\* after the digits: \s+attacks?\s+(per\s+turn|per turn|in one turn)
AttacksPerTurnTail(text, e) ==
  LET q1 == RePlus(text, {e}, Whitespace)
      q2 == ReLit(text, q1, KwAttack)
      q3 == ReOpt(text, q2, {"s"})
      q4 == RePlus(text, q3, Whitespace)
  IN ReLit(text, RePlus(text, ReLit(text, q4, KwPer), Whitespace), KwTurn)
       \cup ReLit(text, q4, KwPerTurn)
       \cup ReLit(text, q4, KwInOneTurn)

\* A match at position i of
\*   form 1:  (\d+)\s+extra\s+attacks?
\*   form 2:  (\d+)\s+attacks?\s+(per\s+turn|per turn|in one turn)
CountMatch(text, i, form) ==
  LET ends == {e \in RePlus(text, {i}, Digits) :
                 IF form = 1 THEN ExtraAttacksTail(text, e) # {}
                 ELSE AttacksPerTurnTail(text, e) # {}}
  IN IF ends = {} THEN NoMatch
     ELSE [found |-> TRUE, count |-> DigitsToInt(SubSeq(text, i, SetMax(ends) - 1))]

\* re.search(form, text): the leftmost match
RECURSIVE SearchCount(_, _, _)
SearchCount(text, pos, form) ==
  LET i == NextIn(text, pos, Digits)
  IN IF i > Len(text) THEN NoMatch
     ELSE LET m == CountMatch(text, i, form)
          IN IF m.found THEN m ELSE SearchCount(text, i + 1, form)

TwicePhrase(text) ==
  \/ Contains(KwExtraAttack, text)
  \/ Contains(KwAttackTwice, text)
  \/ Contains(KwCanAttackTwice, text)
  \/ Contains(KwAttacksTwice, text)

\* the extra attacks detection
extra_attacks(text) ==
  LET m == SearchCount(text, 1, 1)
      m2 == SearchCount(text, 1, 2)
      numeric == IF m.found THEN m.count
                 ELSE IF m2.found /\ m2.count > 1 THEN m2.count - 1
                 ELSE 0
  IN IF numeric = 0 /\ TwicePhrase(text) THEN 1 ELSE numeric

\* is_ranged_naval without the test of rangedStrength
is_ranged_naval_any_strength(u) == Contains(KwWater, Lower(Get(u, "unitType", <<>>)))

\* is_ranged_naval with a unit that has no rangedStrength read as one of strength 1
is_ranged_naval_default_one(u) ==
  Contains(KwWater, Lower(Get(u, "unitType", <<>>))) /\ Get(u, "rangedStrength", 1) > 0

\* the ranged naval detection
is_ranged_naval(u) ==
  LET unit_type == Lower(Get(u, "unitType", <<>>))
  IN Contains(KwWater, unit_type) /\ Get(u, "rangedStrength", 0) > 0

parse_unit_modifiers(u) ==
  LET text == CorpusText(u)
      entries == percent_entries(text)
  IN [city_attack_bonus |-> BucketSum(entries, text, "city_attack_bonus"),
      attack_vs_bonus |-> BucketSum(entries, text, "attack_vs_bonus"),
      attack_bonus |-> BucketSum(entries, text, "attack_bonus"),
      defend_bonus |-> BucketSum(entries, text, "defend_bonus"),
      paradrop_able |-> paradrop_able(text),
      must_set_up |-> must_set_up(text),
      self_destructs |-> self_destructs(text),
      extra_attacks |-> extra_attacks(text),
      is_ranged_naval |-> is_ranged_naval(u)]

(***************************************************************************)
(* Inputs of the parser                                                    *)
(***************************************************************************)
\* most ability strings a unit carries, uniques and promotions together
MaxAbilities == 2

MaxRangedStrength == 2

SeqsUpTo(S, n) == UNION {[1..k -> S] : k \in 0..n}

PercentCatalogue ==
  {UqVsCities, UqVsCity, UqVsMounted, UqWhenAttacking, UqWhenDefending,
   UqSpacedPercent, UqSelfDestructs, UqNoBonusDefending}

AttackCatalogue ==
  {UqOneExtraAttack, UqZeroExtraAttacks, UqThreeAttacksPerTurn,
   UqOneAttackPerTurn, UqCanAttackTwice, UqAdditionalAttacks}

FlagCatalogue == {UqNuclearWeapon, UqParadrop, UqMustSetUp, UqSelfDestructs}

\* strings no pattern of the parser matches, some with malformed bracket or tag text
PlainCatalogue ==
  {UqMoveAfterAttacking, UqMalformedNoTag, UqMalformedNoDigits, UqMalformedEmptyTag, <<>>}

\* tags that name a city next to the phrases of the other buckets
CityCatalogue ==
  {UqCityWhenAttacking, UqCityWhenDefending, UqWhenAttacking, UqWhenDefending, UqVsMounted}

Catalogues == {PercentCatalogue, AttackCatalogue, FlagCatalogue, PlainCatalogue, CityCatalogue}

UnitTypes == {TyWaterRanged, TyWaterMelee, TySubmarine, TyCarrier, TyWarship, TySword, TyArchery}

\* units whose ability text varies
AbilityLists(C) ==
  {up \in SeqsUpTo(C, MaxAbilities) \X SeqsUpTo(C, MaxAbilities) :
     Len(up[1]) + Len(up[2]) <= MaxAbilities}

TextUnits ==
  UNION {{[uniques |-> up[1], promotions |-> up[2], unitType |-> TySword, rangedStrength |-> 0] :
            up \in AbilityLists(C)} : C \in Catalogues}

\* units whose type and ranged strength vary
TypeUnits ==
  {[uniques |-> <<>>, promotions |-> <<>>, unitType |-> t, rangedStrength |-> r] :
     t \in UnitTypes, r \in 0..MaxRangedStrength}
  \cup {[uniques |-> <<>>, promotions |-> <<>>, unitType |-> t] : t \in UnitTypes}
  \cup {[uniques |-> <<>>, promotions |-> <<>>, rangedStrength |-> r] : r \in 0..MaxRangedStrength}

Restrict(f, K) == [k \in K |-> f[k]]

\* units that lack some of the keys the parser reads
SparseUnits ==
  {Restrict(u, K) :
     u \in {[uniques |-> <<UqMalformedNoTag>>, promotions |-> <<UqMoveAfterAttacking>>,
              unitType |-> TyWaterRanged, rangedStrength |-> 0],
            [uniques |-> <<>>, promotions |-> <<>>, unitType |-> <<>>, rangedStrength |-> 0],
            [uniques |-> <<UqVsCities>>, promotions |-> <<UqParadrop>>,
              unitType |-> TyWaterRanged, rangedStrength |-> 1]},
     K \in SUBSET {"uniques", "promotions", "unitType", "rangedStrength"}}

Units == TextUnits \cup TypeUnits \cup SparseUnits

NoValue == <<>>

InitParser ==
  /\ pc = "parse"
  /\ unit \in Units
  /\ parsed = NoValue
  /\ args = NoValue
  /\ force = NoValue
  /\ query = NoValue
  /\ bracket = NoValue
  /\ harness = NoValue
  /\ console = NoValue

\* parsed = parse_unit_modifiers(unit)
ParseUnit ==
  /\ pc = "parse"
  /\ parsed' = parse_unit_modifiers(unit)
  /\ pc' = "parsed"
  /\ UNCHANGED <<unit, args, force, query, bracket, harness, console>>

NextParser == ParseUnit

SpecParser == InitParser /\ [][NextParser]_vars

(***************************************************************************)
(* Exact arithmetic.  A number is a reduced fraction <<n, d>> with d > 0.  *)
(***************************************************************************)
Abs(x) == IF x < 0 THEN 0 - x ELSE x

RECURSIVE Gcd(_, _)
Gcd(a, b) == IF b = 0 THEN a ELSE Gcd(b, a % b)

Rat(n, d) ==
  LET g == Gcd(Abs(n), Abs(d))
      s == IF d < 0 THEN 0 - 1 ELSE 1
  IN <<(s * n) \div g, (s * d) \div g>>

RMul(x, y) == Rat(x[1] * y[1], x[2] * y[2])

RAdd(x, y) == Rat(x[1] * y[2] + y[1] * x[2], x[2] * y[2])

RatZero == Rat(0, 1)

RatOne == Rat(1, 1)

(***************************************************************************)
(* math_stuff.percent_to_decimal                                           *)
(***************************************************************************)
percent_to_decimal(percent) == Rat(percent, 100)

(***************************************************************************)
(* main.compute_base_force                                                 *)
(*                                                                         *)
(* The returned float is kept as  coeff * B + plus,  where                 *)
(* B = pow(start.arg, start.exponent) * pow(movement, 0.3) stays symbolic  *)
(* and coeff and plus are exact fractions.                                 *)
(***************************************************************************)
\* Python's None, for an argument left at its default of None
None == -1

NukeBonus == 4000

\* base_start preferring the melee start when the melee strength is the larger
base_start_stronger(a) ==
  IF a.ranged_strength # None /\ a.ranged_strength > 0 /\ a.ranged_strength >= a.strength
  THEN [path |-> "ranged", arg |-> a.ranged_strength, exponent |-> "1.45"]
  ELSE [path |-> "melee", arg |-> a.strength, exponent |-> "1.5"]

\* if ranged_strength is not None and ranged_strength > 0: ... else: ...
base_start(a) ==
  IF a.ranged_strength # None /\ a.ranged_strength > 0
  THEN [path |-> "ranged", arg |-> a.ranged_strength, exponent |-> "1.45"]
  ELSE [path |-> "melee", arg |-> a.strength, exponent |-> "1.5"]

\* BonusFactor with the weight left out: the whole percent is applied
BonusFactorFullWeight(weight, percent) == RAdd(RatOne, percent_to_decimal(percent))

\* 1.0 + weight * percent_to_decimal(percent)
BonusFactor(weight, percent) == RAdd(RatOne, RMul(weight, percent_to_decimal(percent)))

\* total_mult after the chain of if-statements
total_mult(a) ==
  LET m0 == RatOne
      m1 == IF a.is_ranged_naval THEN RMul(m0, Rat(1, 2)) ELSE m0
      m2 == IF a.self_destructs THEN RMul(m1, Rat(1, 2)) ELSE m1
      m3 == IF a.city_attack_bonus # 0
            THEN RMul(m2, BonusFactor(Rat(1, 2), a.city_attack_bonus)) ELSE m2
      m4 == IF a.attack_vs_bonus # 0
            THEN RMul(m3, BonusFactor(Rat(1, 4), a.attack_vs_bonus)) ELSE m3
      m5 == IF a.attack_bonus # 0
            THEN RMul(m4, BonusFactor(Rat(1, 2), a.attack_bonus)) ELSE m4
      m6 == IF a.defend_bonus # 0
            THEN RMul(m5, BonusFactor(Rat(1, 2), a.defend_bonus)) ELSE m5
      m7 == IF a.paradrop_able THEN RMul(m6, Rat(5, 4)) ELSE m6
      m8 == IF a.must_set_up THEN RMul(m7, Rat(4, 5)) ELSE m7
      m9 == IF a.terrain_bonus # 0
            THEN RMul(m8, BonusFactor(Rat(1, 2), a.terrain_bonus)) ELSE m8
  IN IF a.extra_attacks # 0
     THEN RMul(m9, RAdd(RatOne, RMul(Rat(1, 5), Rat(a.extra_attacks, 1)))) ELSE m9

\* NukeAddition with the 4000 added to the base, before the multiplication
NukeAdditionScaled(a, final) ==
  IF a.is_nuke
  THEN [final EXCEPT !.plus = RAdd(final.plus, RMul(final.coeff, Rat(NukeBonus, 1)))]
  ELSE final

\* final = base * total_mult; if is_nuke: final += 4000.0
NukeAddition(a, final) ==
  IF a.is_nuke
  THEN [final EXCEPT !.plus = RAdd(final.plus, Rat(NukeBonus, 1))]
  ELSE final

compute_base_force(a) ==
  LET start == base_start(a)
      base == [start |-> start, movement |-> a.movement,
               coeff |-> RatOne, plus |-> RatZero]
      final == [base EXCEPT !.coeff = RMul(base.coeff, total_mult(a)),
                            !.plus = RMul(base.plus, total_mult(a))]
  IN IF start.arg = None
     THEN [raised |-> "TypeError"]
     ELSE NukeAddition(a, final)

(***************************************************************************)
(* Inputs of the force formula                                             *)
(***************************************************************************)
MaxStrength == 2

MaxMovement == 2

MaxExtraAttacks == 1

PercentValues == {-25, 0, 50}

Stats ==
  [strength : {None} \cup 0..MaxStrength,
   ranged_strength : {None} \cup 0..MaxStrength,
   movement : 1..MaxMovement]

Modifiers ==
  [is_nuke : BOOLEAN, is_ranged_naval : BOOLEAN, self_destructs : BOOLEAN,
   city_attack_bonus : PercentValues, attack_vs_bonus : PercentValues,
   attack_bonus : PercentValues, defend_bonus : PercentValues,
   paradrop_able : BOOLEAN, must_set_up : BOOLEAN, terrain_bonus : PercentValues,
   extra_attacks : 0..MaxExtraAttacks]

\* the defaults of the keyword arguments
DefaultModifiers ==
  [is_nuke |-> FALSE, is_ranged_naval |-> FALSE, self_destructs |-> FALSE,
   city_attack_bonus |-> 0, attack_vs_bonus |-> 0, attack_bonus |-> 0,
   defend_bonus |-> 0, paradrop_able |-> FALSE, must_set_up |-> FALSE,
   terrain_bonus |-> 0, extra_attacks |-> 0]

Merge(f, g) == [k \in DOMAIN f \cup DOMAIN g |-> IF k \in DOMAIN f THEN f[k] ELSE g[k]]

\* every stat with a few modifier settings, every modifier setting with a melee and a ranged unit
ForceArgs ==
  {Merge(s, m) : s \in Stats,
                 m \in {DefaultModifiers,
                        [DefaultModifiers EXCEPT !.is_nuke = TRUE],
                        [DefaultModifiers EXCEPT !.is_nuke = TRUE, !.self_destructs = TRUE]}}
  \cup {Merge(s, m) : s \in {[strength |-> MaxStrength, ranged_strength |-> 0, movement |-> MaxMovement],
                             [strength |-> 1, ranged_strength |-> MaxStrength, movement |-> MaxMovement]},
                      m \in Modifiers}

InitFormula ==
  /\ pc = "compute"
  /\ args \in ForceArgs
  /\ force = NoValue
  /\ unit = NoValue
  /\ parsed = NoValue
  /\ query = NoValue
  /\ bracket = NoValue
  /\ harness = NoValue
  /\ console = NoValue

\* force = compute_base_force(**args)
ComputeForce ==
  /\ pc = "compute"
  /\ force' = compute_base_force(args)
  /\ pc' = "computed"
  /\ UNCHANGED <<unit, parsed, args, query, bracket, harness, console>>

NextFormula == ComputeForce

SpecFormula == InitFormula /\ [][NextFormula]_vars

(***************************************************************************)
(* force_comparison: the static table and find_force_bounds.               *)
(* Every tabulated force is a whole number; a queried force is a fraction. *)
(***************************************************************************)
\* _UNITS: (name, force)
_UNITS ==
  <<<<"Scout", 13>>, <<"Archer", 19>>, <<"Slinger", 19>>, <<"Dromon", 23>>,
    <<"Warrior", 27>>, <<"Maori Warrior", 27>>, <<"Brute", 27>>, <<"Bowman", 29>>,
    <<"Jaguar", 36>>, <<"Catapult", 39>>, <<"Composite Bowman", 39>>,
    <<"Galleass", 41>>, <<"Chariot Archer", 42>>, <<"War Elephant", 44>>,
    <<"War Chariot", 45>>, <<"Horse Archer", 45>>, <<"Trireme", 46>>,
    <<"Spearman", 49>>, <<"Ballista", 55>>, <<"Persian Immortal", 56>>,
    <<"Horseman", 62>>, <<"Hoplite", 63>>, <<"Swordsman", 64>>, <<"Chu-Ko-Nu", 66>>,
    <<"Quinquereme", 69>>, <<"African Forest Elephant", 72>>, <<"Battering Ram", 80>>,
    <<"Cataphract", 80>>, <<"Crossbowman", 81>>, <<"Longbowman", 81>>,
    <<"Companion Cavalry", 84>>, <<"Legion", 86>>, <<"Mohawk Warrior", 86>>,
    <<"Pikeman", 87>>, <<"Landsknecht", 87>>, <<"Trebuchet", 88>>, <<"Keshik", 89>>,
    <<"Frigate", 100>>, <<"Hwach'a", 110>>, <<"Longswordsman", 118>>,
    <<"Camel Archer", 124>>, <<"Samurai", 126>>, <<"Berserker", 133>>,
    <<"Knight", 134>>, <<"Conquistador", 134>>, <<"Mandekalu Cavalry", 134>>,
    <<"Caravel", 134>>, <<"Ship of the Line", 139>>, <<"Musketman", 144>>,
    <<"Cannon", 151>>, <<"Minuteman", 154>>, <<"Janissary", 162>>,
    <<"Gatling Gun", 169>>, <<"Musketeer", 182>>, <<"Tercio", 182>>,
    <<"Naresuan's Elephant", 194>>, <<"Lancer", 204>>, <<"Hakkapeliitta", 204>>,
    <<"Sipahi", 218>>, <<"Privateer", 222>>, <<"Rifleman", 243>>, <<"Carolean", 243>>,
    <<"Sea Beggar", 244>>, <<"Artillery", 245>>, <<"Battleship", 269>>,
    <<"Great War Bomber", 290>>, <<"Cavalry", 300>>, <<"Hussar", 320>>,
    <<"Triplane", 325>>, <<"Turtle Ship", 327>>, <<"Cossack", 337>>,
    <<"Norwegian Ski Infantry", 345>>, <<"Guided Missile", 378>>, <<"Carrier", 408>>,
    <<"Submarine", 420>>, <<"Bomber", 425>>, <<"Great War Infantry", 434>>,
    <<"Machine Gun", 465>>, <<"Fighter", 470>>, <<"Foreign Legion", 477>>,
    <<"Ironclad", 486>>, <<"Zero", 508>>, <<"Anti-Tank Gun", 542>>, <<"B17", 551>>,
    <<"Marine", 645>>, <<"Landship", 703>>, <<"Infantry", 720>>,
    <<"Nuclear Submarine", 735>>, <<"Stealth Bomber", 771>>, <<"Paratrooper", 806>>,
    <<"Anti-Aircraft Gun", 819>>, <<"Destroyer", 870>>, <<"Missile Cruiser", 888>>,
    <<"Rocket Artillery", 930>>, <<"Tank", 948>>, <<"Jet Fighter", 988>>,
    <<"Helicopter Gunship", 992>>, <<"Mechanized Infantry", 1186>>, <<"Panzer", 1223>>,
    <<"Mobile SAM", 1376>>, <<"Modern Armor", 1620>>, <<"Giant Death Robot", 2977>>,
    <<"Atomic Bomb", 4714>>, <<"Nuclear Missile", 7906>>>>

\* _FORCES = [f for (_n, f) in _UNITS]
_FORCES == [i \in 1..Len(_UNITS) |-> Rat(_UNITS[i][2], 1)]

\* _NAMES = [n for (n, _f) in _UNITS]
_NAMES == [i \in 1..Len(_UNITS) |-> _UNITS[i][1]]

RLess(x, y) == x[1] * y[2] < y[1] * x[2]

\* list[idx] with Python's 0-based indices, negative ones counted from the end
InRange(list, idx) == idx >= 0 - Len(list) /\ idx < Len(list)

PyIndex(list, idx) == IF idx >= 0 THEN list[idx + 1] ELSE list[Len(list) + idx + 1]

\* bisect_right turned into bisect_left: the entries equal to x stay to the right
RECURSIVE bisect_left(_, _, _, _)
bisect_left(a, x, lo, hi) ==
  IF lo < hi
  THEN LET mid == (lo + hi) \div 2
       IN IF RLess(a[mid + 1], x)
          THEN bisect_left(a, x, mid + 1, hi)
          ELSE bisect_left(a, x, lo, mid)
  ELSE lo

\* bisect.bisect_right(a, x, lo, hi): the loop  while lo < hi
RECURSIVE bisect_right(_, _, _, _)
bisect_right(a, x, lo, hi) ==
  IF lo < hi
  THEN LET mid == (lo + hi) \div 2
       IN IF RLess(x, a[mid + 1])
          THEN bisect_right(a, x, lo, mid)
          ELSE bisect_right(a, x, mid + 1, hi)
  ELSE lo

\* BoundIndices without the branch for j == len(_FORCES): the higher index is
\* merely kept inside the table
BoundIndicesClamped(f) ==
  LET j == bisect_right(_FORCES, f, 0, Len(_FORCES))
  IN [lower_idx |-> IF j - 1 > 0 THEN j - 1 ELSE 0,
      higher_idx |-> IF j < Len(_FORCES) THEN j ELSE Len(_FORCES) - 1]

\* lower_idx and higher_idx, once neither early return was taken
BoundIndices(f) ==
  LET j == bisect_right(_FORCES, f, 0, Len(_FORCES))
  IN IF j = Len(_FORCES)
     THEN [lower_idx |-> IF Len(_FORCES) >= 2 THEN Len(_FORCES) - 2 ELSE 0,
           higher_idx |-> Len(_FORCES) - 1]
     ELSE [lower_idx |-> IF j - 1 > 0 THEN j - 1 ELSE 0,
           higher_idx |-> j]

\* the returned string; "Between X and Y" is kept as its two names
find_force_bounds(f) ==
  IF RLess(f, PyIndex(_FORCES, 0)) THEN [text |-> "Lower than any G&K unit"]
  ELSE IF RLess(PyIndex(_FORCES, 0 - 1), f) THEN [text |-> "Higher than any G&K unit"]
  ELSE LET b == BoundIndices(f)
       IN IF InRange(_NAMES, b.lower_idx) /\ InRange(_NAMES, b.higher_idx)
          THEN [text |-> "Between X and Y",
                X |-> PyIndex(_NAMES, b.lower_idx),
                Y |-> PyIndex(_NAMES, b.higher_idx)]
          ELSE [raised |-> "IndexError"]

(***************************************************************************)
(* Inputs of the rank locator: every tabulated force, and the forces half  *)
(* a point below and above it                                              *)
(***************************************************************************)
Queries ==
  UNION {{Rat(2 * _UNITS[i][2] - 1, 2), Rat(_UNITS[i][2], 1), Rat(2 * _UNITS[i][2] + 1, 2)} :
           i \in 1..Len(_UNITS)}

InitLocator ==
  /\ pc = "locate"
  /\ query \in Queries
  /\ bracket = NoValue
  /\ harness = NoValue
  /\ console = NoValue
  /\ unit = NoValue
  /\ parsed = NoValue
  /\ args = NoValue
  /\ force = NoValue

\* bracket = find_force_bounds(query)
LocateForce ==
  /\ pc = "locate"
  /\ bracket' = find_force_bounds(query)
  /\ pc' = "located"
  /\ UNCHANGED <<unit, parsed, args, force, query, harness, console>>

NextLocator == LocateForce

SpecLocator == InitLocator /\ [][NextLocator]_vars

(***************************************************************************)
(* test_units: eval_unit_with_options, round_half_up,                      *)
(* find_best_interpretation and the loop body of main for one unit.        *)
(*                                                                         *)
(* Here a float has a value: it is a whole number of 1/FloatScale, a       *)
(* power is read from a table of the values of Python's ** and a product   *)
(* is rounded down to 1/FloatScale.  The multiplicative accumulator stays  *)
(* an exact fraction.                                                      *)
(***************************************************************************)
FloatScale == 100000

\* x ** 1.5, x ** 1.45 and x ** 0.3 for x = 1 .. 8, in 1/FloatScale
PowTable ==
  [e \in {"1.5", "1.45", "0.3"} |->
     CASE e = "1.5" -> <<100000, 282843, 519615, 800000, 1118034, 1469694, 1852026,
                      2262742>>
       [] e = "1.45" -> <<100000, 273208, 491842, 746426, 1031589, 1343753, 1680321,
                       2039297>>
       [] e = "0.3" -> <<100000, 123114, 139039, 151572, 162066, 171177, 179279,
                      186607>>]

\* x ** exponent
Pow(x, exponent) == IF x = 0 THEN 0 ELSE PowTable[exponent][x]

\* x * y for two floats: the floor of x * y / FloatScale, computed in two
\* parts so that no intermediate product leaves the 32-bit integers
FMul(x, y) == (x * (y \div 1000) + (x * (y % 1000)) \div 1000) \div (FloatScale \div 1000)

\* x * r for a float x and a fraction r >= 0: the floor of x * r[1] / r[2]
FMulRat(x, r) == (x \div r[2]) * r[1] + ((x % r[2]) * r[1]) \div r[2]

\* int(math.floor(val + 0.5)) if val >= 0 else int(math.ceil(val - 0.5))
round_half_up(val) ==
  IF val >= 0 THEN (val + FloatScale \div 2) \div FloatScale
  ELSE 0 - ((FloatScale \div 2 - val) \div FloatScale)

HarnessNukeBonus == 4000

\* (strength ** 1.5) if (strength and strength > 0) else 0.0
melee_start(u) ==
  LET strength == Get(u, "strength", 0)
  IN IF strength # 0 /\ strength > 0 THEN Pow(strength, "1.5") ELSE 0

\* (ranged ** 1.45) if (ranged and ranged > 0) else 0.0
ranged_start(u) ==
  LET ranged == Get(u, "rangedStrength", 0)
  IN IF ranged # 0 /\ ranged > 0 THEN Pow(ranged, "1.45") ELSE 0

\* the choice of the start: ranged_start >= 0.9 * melee_start is
\* 10 * ranged_start >= 9 * melee_start
use_ranged_start(u, opts) ==
  IF ranged_start(u) > 0 /\ melee_start(u) = 0 THEN TRUE
  ELSE IF ranged_start(u) > 0 /\ melee_start(u) > 0
       THEN opts.use_ranged_if_present /\ 10 * ranged_start(u) >= 9 * melee_start(u)
       ELSE FALSE

\* 1.0 + weight * (percent / 100.0)
WeightedBonus(weight, percent) == RAdd(RatOne, RMul(weight, Rat(percent, 100)))

\* the if-statements on total_mult, in their order: <<condition, factor>>
HarnessFactors(u, opts, p) ==
  <<(<<use_ranged_start(u, opts) /\ opts.apply_ranged_naval_penalty
         /\ Get(p, "is_ranged_naval", FALSE),
       Rat(1, 2)>>),
    (<<Get(p, "self_destructs", FALSE)
         /\ (Get(p, "is_nuke", FALSE) => opts.apply_self_destruct_for_nuke),
       Rat(1, 2)>>),
    (<<Get(p, "city_attack_bonus", 0) # 0,
       WeightedBonus(Rat(1, 2), Get(p, "city_attack_bonus", 0))>>),
    (<<Get(p, "attack_vs_bonus", 0) # 0,
       WeightedBonus(opts.attack_vs_weight, Get(p, "attack_vs_bonus", 0))>>),
    (<<Get(p, "attack_bonus", 0) # 0,
       WeightedBonus(opts.attack_weight, Get(p, "attack_bonus", 0))>>),
    (<<Get(p, "defend_bonus", 0) # 0,
       WeightedBonus(opts.defend_weight, Get(p, "defend_bonus", 0))>>),
    (<<Get(p, "paradrop_able", FALSE), Rat(5, 4)>>),
    (<<Get(p, "must_set_up", FALSE), Rat(4, 5)>>),
    (<<Get(p, "extra_attacks", 0) # 0,
       RAdd(RatOne, RMul(Rat(1, 5), Rat(Get(p, "extra_attacks", 0), 1)))>>)>>

\* total_mult *= factor, for each if-statement whose condition holds
RECURSIVE ApplyFactors(_, _)
ApplyFactors(mult, factors) ==
  IF factors = <<>> THEN mult
  ELSE ApplyFactors(IF factors[1][1] THEN RMul(mult, factors[1][2]) ELSE mult,
                    Tail(factors))

eval_unit_with_options(u, opts, p) ==
  LET start == IF use_ranged_start(u, opts) THEN ranged_start(u) ELSE melee_start(u)
      base == FMul(start, Pow(Get(u, "movement", 2), "0.3"))
      mult == ApplyFactors(RatOne, HarnessFactors(u, opts, p))
  IN [final |-> FMulRat(base, mult)
                  + (IF Get(p, "is_nuke", FALSE) THEN HarnessNukeBonus * FloatScale ELSE 0),
      used |-> IF use_ranged_start(u, opts)
               THEN <<"ranged", Get(u, "rangedStrength", 0)>>
               ELSE <<"melee", Get(u, "strength", 0)>>,
      base |-> base,
      total_mult |-> mult]

\* the option grid of find_best_interpretation, in the order of its six loops
option_grid ==
  [i \in 1..96 |->
     LET k == i - 1
     IN [use_ranged_if_present |-> (k \div 48) % 2 = 0,
         apply_ranged_naval_penalty |-> (k \div 24) % 2 = 0,
         attack_vs_weight |-> <<Rat(0, 1), Rat(1, 4), Rat(1, 2)>>[((k \div 8) % 3) + 1],
         attack_weight |-> <<Rat(0, 1), Rat(1, 2)>>[((k \div 4) % 2) + 1],
         defend_weight |-> <<Rat(0, 1), Rat(1, 2)>>[((k \div 2) % 2) + 1],
         apply_self_destruct_for_nuke |-> k % 2 = 1]]

\* the standard options of main
std_opts ==
  [use_ranged_if_present |-> TRUE,
   apply_ranged_naval_penalty |-> TRUE,
   attack_vs_weight |-> Rat(1, 4),
   attack_weight |-> Rat(1, 2),
   defend_weight |-> Rat(1, 2),
   apply_self_destruct_for_nuke |-> FALSE]

\* if best_err is None or err < best_err, with a tie taken as an improvement
ImprovesOrTies(err, best_err) == best_err = None \/ err <= best_err

\* if best_err is None or err < best_err
Improves(err, best_err) == best_err = None \/ err < best_err

(***************************************************************************)
(* Inputs of the harness                                                   *)
(***************************************************************************)
\* the strength of a strong unit
StrongStrength == 7

\* units with every strength, a strong unit of each kind, and units that lack stats
HarnessUnits ==
  [strength : 0..MaxStrength, rangedStrength : 0..MaxStrength, movement : {MaxMovement}]
  \cup {[strength |-> MaxStrength, rangedStrength |-> 1, movement |-> 1],
        [strength |-> StrongStrength, rangedStrength |-> 0, movement |-> MaxMovement],
        [strength |-> StrongStrength, rangedStrength |-> StrongStrength - 1,
         movement |-> MaxMovement],
        [strength |-> StrongStrength - 1, rangedStrength |-> StrongStrength,
         movement |-> MaxMovement],
        [strength |-> StrongStrength],
        [rangedStrength |-> StrongStrength],
        [movement |-> MaxMovement]}

\* the record of a unit in which the parser found nothing
NothingParsed ==
  [city_attack_bonus |-> 0, attack_vs_bonus |-> 0, attack_bonus |-> 0, defend_bonus |-> 0,
   paradrop_able |-> FALSE, must_set_up |-> FALSE, self_destructs |-> FALSE,
   extra_attacks |-> 0, is_ranged_naval |-> FALSE]

\* what the parser may have found in the percents and in the other abilities
ParsedPercents ==
  {NothingParsed,
   [NothingParsed EXCEPT !.attack_vs_bonus = 50, !.attack_bonus = 50, !.defend_bonus = -25],
   [NothingParsed EXCEPT !.city_attack_bonus = 50, !.paradrop_able = TRUE,
                         !.must_set_up = TRUE, !.extra_attacks = MaxExtraAttacks]}

\* the flags the parser may have set, and an is_nuke key as a caller may add it
ParsedFlags ==
  {[is_ranged_naval |-> FALSE, self_destructs |-> FALSE],
   [is_ranged_naval |-> TRUE, self_destructs |-> FALSE],
   [is_ranged_naval |-> FALSE, self_destructs |-> TRUE],
   [is_ranged_naval |-> FALSE, self_destructs |-> FALSE, is_nuke |-> TRUE],
   [is_ranged_naval |-> TRUE, self_destructs |-> TRUE, is_nuke |-> TRUE]}

HarnessParsed == {Merge(f, p) : f \in ParsedFlags, p \in ParsedPercents}

\* the force the documentation gives for the unit, and --threshold
DocValues ==
  {[md_val |-> 3, threshold |-> 0],
   [md_val |-> 3, threshold |-> 5],
   [md_val |-> 30, threshold |-> 5],
   [md_val |-> 4000, threshold |-> 5]}

InitHarness ==
  /\ pc = "evaluate"
  /\ unit \in HarnessUnits
  /\ parsed \in HarnessParsed
  /\ harness \in DocValues
  /\ args = NoValue
  /\ force = NoValue
  /\ query = NoValue
  /\ bracket = NoValue
  /\ console = NoValue

\* main: the standard evaluation of one unit; when its delta is above the
\* threshold, find_best_interpretation is entered with best, best_err and
\* best_res at None
EvaluateStandard ==
  /\ pc = "evaluate"
  /\ LET res == eval_unit_with_options(unit, std_opts, parsed)
         base_int == round_half_up(res.final)
         delta == base_int - harness.md_val
         std == [base_float |-> res.final, used |-> res.used, base |-> res.base,
                 total_mult |-> res.total_mult, base_int |-> base_int, delta |-> delta]
     IN IF Abs(delta) <= harness.threshold
        THEN /\ harness' = Merge([std |-> std, status |-> "OK"], harness)
             /\ pc' = "reported"
        ELSE /\ harness' = Merge([std |-> std, i |-> 1, best |-> NoValue,
                                  best_err |-> None, best_res |-> NoValue], harness)
             /\ pc' = "search"
  /\ UNCHANGED <<unit, parsed, args, force, query, bracket, console>>

\* find_best_interpretation: one pass of the loop over option_grid; the
\* function returns at the break or after the last entry
TryOption ==
  /\ pc = "search"
  /\ harness.i <= Len(option_grid)
  /\ LET opts == option_grid[harness.i]
         res == eval_unit_with_options(unit, opts, parsed)
         final_int == round_half_up(res.final)
         err == Abs(final_int - harness.md_val)
         better == Improves(err, harness.best_err)
         found == [harness EXCEPT !.best_err = err, !.best = opts,
                                  !.best_res = [final_float |-> res.final,
                                                final_int |-> final_int,
                                                used |-> res.used, base |-> res.base,
                                                total_mult |-> res.total_mult]]
     IN IF better /\ err = 0
        THEN /\ harness' = found
             /\ pc' = "returned"
        ELSE /\ harness' = [(IF better THEN found ELSE harness) EXCEPT !.i = harness.i + 1]
             /\ pc' = IF harness.i = Len(option_grid) THEN "returned" ELSE "search"
  /\ UNCHANGED <<unit, parsed, args, force, query, bracket, console>>

\* main: the status of the unit after find_best_interpretation has returned
ReportBest ==
  /\ pc = "returned"
  /\ harness' = Merge([status |-> IF harness.best_res = NoValue THEN "NO_MATCH"
                                  ELSE IF harness.best_err <= harness.threshold
                                       THEN "ADJUSTED" ELSE "BEST_MATCH"],
                      harness)
  /\ pc' = "reported"
  /\ UNCHANGED <<unit, parsed, args, force, query, bracket, console>>

NextHarness == EvaluateStandard \/ TryOption \/ ReportBest

SpecHarness == InitHarness /\ [][NextHarness]_vars

(***************************************************************************)
(* user_input.get_input_as_bool, called from a module.  One                *)
(* invocation reads one typed answer; the recursive call for an            *)
(* unrecognised answer is a further invocation, one frame deeper, and what *)
(* the innermost invocation returns or raises is passed up unchanged.      *)
(***************************************************************************)
\* "yes"
KwYes ==
  <<"y","e","s">>
\* "y"
KwY ==
  <<"y">>
\* "true"
KwTrue ==
  <<"t","r","u","e">>
\* "no"
KwNo ==
  <<"n","o">>
\* "n"
KwN ==
  <<"n">>
\* "false"
KwFalse ==
  <<"f","a","l","s","e">>

positive == {KwYes, KwY, KwTrue}

negative == {KwNo, KwN, KwFalse}

\* sys.getrecursionlimit(): the frames CPython allows before RecursionError
RecursionLimit == 1000

\* the frames below the first invocation: a module that calls the function
CallerFrames == 1

(***************************************************************************)
(* Inputs of the prompt                                                    *)
(***************************************************************************)
\* "yes"
AnsYes ==
  <<"y","e","s">>
\* "Y"
AnsUpperY ==
  <<"Y">>
\* "True"
AnsMixedTrue ==
  <<"T","r","u","e">>
\* "no"
AnsNo ==
  <<"n","o">>
\* "N"
AnsUpperN ==
  <<"N">>
\* "FALSE"
AnsUpperFalse ==
  <<"F","A","L","S","E">>
\* " yes"
AnsPaddedYes ==
  <<" ","y","e","s">>
\* "maybe"
AnsMaybe ==
  <<"m","a","y","b","e">>

\* what the user may type at a prompt; the last one is the empty line
Answers ==
  {AnsYes, AnsUpperY, AnsMixedTrue, AnsNo, AnsUpperN, AnsUpperFalse,
   AnsPaddedYes, AnsMaybe, <<>>}

Prompts == {"Is it a nuke? ", "Can it paradrop? "}

InitConsole ==
  /\ pc = "prompt"
  /\ console \in [prompt : Prompts, error_on_bad_input : BOOLEAN, depth : {1}]
  /\ unit = NoValue
  /\ parsed = NoValue
  /\ args = NoValue
  /\ force = NoValue
  /\ query = NoValue
  /\ bracket = NoValue
  /\ harness = NoValue

\* one invocation of get_input_as_bool(prompt, error_on_bad_input); the call
\* of input in a frame beyond the recursion limit raises RecursionError
Ask ==
  /\ pc = "prompt"
  /\ IF CallerFrames + console.depth + 1 > RecursionLimit
     THEN /\ console' = Merge([raised |-> "RecursionError"], console)
          /\ pc' = "raised"
     ELSE \E typed \in Answers :
            LET answer == Lower(typed)
            IN IF answer \in positive
               THEN /\ console' = Merge([answer |-> typed, returned |-> TRUE], console)
                    /\ pc' = "returned"
               ELSE IF answer \in negative
               THEN /\ console' = Merge([answer |-> typed, returned |-> FALSE], console)
                    /\ pc' = "returned"
               ELSE IF console.error_on_bad_input
               THEN /\ console' = Merge([answer |-> typed, raised |-> "ValueError"], console)
                    /\ pc' = "raised"
               ELSE /\ console' = Merge([answer |-> typed, depth |-> console.depth + 1],
                                        console)
                    /\ pc' = "prompt"
  /\ UNCHANGED <<unit, parsed, args, force, query, bracket, harness>>

NextConsole == Ask

SpecConsole == InitConsole /\ [][NextConsole]_vars

(***************************************************************************)
(* The whole program: a unit is parsed, a force is computed from its       *)
(* arguments, a force is located in the table, a unit is evaluated by the  *)
(* harness, or a yes/no question is asked.                                 *)
(***************************************************************************)
Init == InitParser \/ InitFormula \/ InitLocator \/ InitHarness \/ InitConsole

Next ==
  \/ ParseUnit
  \/ ComputeForce
  \/ LocateForce
  \/ EvaluateStandard
  \/ TryOption
  \/ ReportBest
  \/ Ask

Spec == Init /\ [][Next]_vars

(***************************************************************************)
(* Properties of the parser                                                *)
(***************************************************************************)
Buckets == {"city_attack_bonus", "attack_vs_bonus", "attack_bonus", "defend_bonus"}

\* the bucket a tag names, looking at nothing but the tag
TagBucket(tag) ==
  IF Contains(KwCity, tag) THEN "city_attack_bonus"
  ELSE IF Contains(KwWhenAttacking, tag) THEN "attack_bonus"
  ELSE IF Contains(KwWhenDefending, tag) THEN "defend_bonus"
  ELSE "attack_vs_bonus"

RECURSIVE TagBucketSum(_, _)
TagBucketSum(entries, bucket) ==
  IF entries = <<>> THEN 0
  ELSE (IF TagBucket(entries[1][2]) = bucket THEN entries[1][1] ELSE 0)
       + TagBucketSum(Tail(entries), bucket)

\* ability strings that hold no [N]% Strength <tag> at all
UnrelatedTexts == {UqSelfDestructs, UqNoBonusDefending}

WithUnique(u, x) == [u EXCEPT !.uniques = Append(Get(u, "uniques", <<>>), x)]

\* C1: every (percent, tag) match is added to the bucket its tag alone names
\* (city, else when attacking, else when defending, else attack_vs), so that
\* adding to the unit an ability string that holds no percent tag leaves the
\* four buckets as they were.
C1_BucketByTagAlone ==
  pc = "parsed" /\ "uniques" \in DOMAIN unit =>
    /\ \A b \in Buckets : parsed[b] = TagBucketSum(percent_entries(CorpusText(unit)), b)
    /\ \A x \in UnrelatedTexts :
         \A b \in Buckets : parse_unit_modifiers(WithUnique(unit, x))[b] = parsed[b]

SeqRange(q) == {q[i] : i \in 1..Len(q)}

RECURSIVE SumPercents(_)
SumPercents(pairs) ==
  IF pairs = {} THEN 0
  ELSE LET p == CHOOSE x \in pairs : TRUE
       IN p[1] + SumPercents(pairs \ {p})

\* C2: each bucket is the sum of the percents of the distinct (percent, tag)
\* pairs of the corpus that are classified into it; a pair counts once however
\* often it is found.
C2_DistinctPairsCountOnce ==
  pc = "parsed" =>
    LET text == CorpusText(unit)
        pairs == SeqRange(percent_entries(text))
    IN \A b \in Buckets :
         parsed[b] = SumPercents({p \in pairs : Classify(p[2], text) = b})

\* "nuclear missile"
KwNuclearMissile ==
  <<"n","u","c","l","e","a","r"," ","m","i","s","s","i","l","e">>
\* "atomic bomb"
KwAtomicBomb ==
  <<"a","t","o","m","i","c"," ","b","o","m","b">>
\* "nuclear weapon"
KwNuclearWeapon ==
  <<"n","u","c","l","e","a","r"," ","w","e","a","p","o","n">>
\* "nuke"
KwNuke ==
  <<"n","u","k","e">>
\* "nuclear"
KwNuclear ==
  <<"n","u","c","l","e","a","r">>
\* "atomic"
KwAtomic ==
  <<"a","t","o","m","i","c">>
\* "submarine"
KwSubmarine ==
  <<"s","u","b","m","a","r","i","n","e">>
\* "aircraft carrier"
KwAircraftCarrier ==
  <<"a","i","r","c","r","a","f","t"," ","c","a","r","r","i","e","r">>
\* "carrier"
KwCarrier ==
  <<"c","a","r","r","i","e","r">>
\* "ship"
KwShip ==
  <<"s","h","i","p">>

\* the characters of a regular expression's \w, after lower-casing
WordChars == SeqRange(LowerCase) \cup Digits \cup {"_"}

\* re.search(r'\b' + word + r'\b', text)
ContainsWord(word, text) ==
  \E i \in 1..(Len(text) - Len(word) + 1) :
    /\ HasAt(text, i, word)
    /\ i = 1 \/ text[i - 1] \notin WordChars
    /\ i + Len(word) > Len(text) \/ text[i + Len(word)] \notin WordChars

NukeWords == {KwNuclearMissile, KwAtomicBomb, KwNuclearWeapon, KwNuke, KwNuclear, KwAtomic}

ModifierFields ==
  {"city_attack_bonus", "attack_vs_bonus", "attack_bonus", "defend_bonus", "paradrop_able",
   "must_set_up", "self_destructs", "extra_attacks", "is_ranged_naval", "is_nuke"}

\* C3: the parsed record holds all ten modifier fields, and the nuke flag a
\* consumer reads from it (parsed.get('is_nuke', False)) is true exactly when
\* the corpus holds one of the nuke words as a whole word.
C3_NukeFlagInRecord ==
  pc = "parsed" =>
    /\ DOMAIN parsed = ModifierFields
    /\ Get(parsed, "is_nuke", FALSE)
         = (\E w \in NukeWords : ContainsWord(w, CorpusText(unit)))

\* the chain of three probes, the first that matches deciding
FirstMatchWins(text) ==
  LET m == SearchCount(text, 1, 1)
      m2 == SearchCount(text, 1, 2)
  IN IF m.found THEN m.count
     ELSE IF m2.found THEN (IF m2.count > 1 THEN m2.count - 1 ELSE 0)
     ELSE IF TwicePhrase(text) THEN 1
     ELSE 0

\* C4: extra_attacks is decided by the first probe that matches: N of
\* "N extra attack(s)", else N-1 (0 for N = 1) of "N attacks per turn", else 1
\* for a phrase such as "can attack twice" only if no number matched, else 0.
C4_FirstProbeWins ==
  pc = "parsed" => parsed.extra_attacks = FirstMatchWins(CorpusText(unit))

NavalIndicators == {KwWater, KwSubmarine, KwAircraftCarrier, KwCarrier, KwShip}

\* C5 as stated: is_ranged_naval is true exactly when rangedStrength > 0 and
\* the lower-cased unitType holds one of "water", "submarine",
\* "aircraft carrier", "carrier", "ship".
C5_AnyNavalIndicator ==
  pc = "parsed" =>
    parsed.is_ranged_naval
      = (/\ Get(unit, "rangedStrength", 0) > 0
         /\ \E w \in NavalIndicators : Contains(w, Lower(Get(unit, "unitType", <<>>))))

\* C5 as amended: is_ranged_naval is true exactly when rangedStrength > 0 and
\* the lower-cased unitType holds "water"; a unit whose rangedStrength is 0 or
\* absent is never ranged-naval, whatever its unitType.
C5_WaterAndRanged ==
  pc = "parsed" =>
    /\ parsed.is_ranged_naval
         = (/\ Get(unit, "rangedStrength", 0) > 0
            /\ Contains(KwWater, Lower(Get(unit, "unitType", <<>>))))
    /\ Get(unit, "rangedStrength", 0) = 0 => ~parsed.is_ranged_naval

\* a ranged unit of a water type has been parsed as ranged-naval, and the
\* type is one whose upper-case letters had to be lowered
C5_Witness ==
  /\ pc = "parsed"
  /\ Get(unit, "unitType", <<>>) = TyWaterRanged
  /\ Get(unit, "rangedStrength", 0) > 0
  /\ parsed.is_ranged_naval

(***************************************************************************)
(* Properties of the rank locator                                          *)
(***************************************************************************)
Tabulated(f) == \E i \in 1..Len(_FORCES) : _FORCES[i] = f

\* how many tabulated forces are below f, and how many are f or below
CountBelow(f) == Cardinality({i \in 1..Len(_FORCES) : RLess(_FORCES[i], f)})

CountUpTo(f) == Cardinality({i \in 1..Len(_FORCES) : ~RLess(f, _FORCES[i])})

\* C6: when the force equals a tabulated force the lower name is the entry
\* ranked immediately below the matching entries, and the matching entry only
\* when it is the minimum of the table.
C6_WidensBelowOnExactMatch ==
  pc = "located" /\ Tabulated(query) =>
    /\ "X" \in DOMAIN bracket
    /\ bracket.X = IF CountBelow(query) = 0 THEN _NAMES[1] ELSE _NAMES[CountBelow(query)]

IndexOfName(name) == CHOOSE i \in 1..Len(_NAMES) : _NAMES[i] = name

\* C14: the table is ascending by force and repeats no name, and for every
\* force from its minimum to its maximum the bracket names two entries, the
\* lower one before the upper one in the table, with lower force <= force <=
\* upper force, and force < upper force whenever the force is below the maximum.
C14_BracketEnclosesForce ==
  /\ \A i \in 1..(Len(_FORCES) - 1) : ~RLess(_FORCES[i + 1], _FORCES[i])
  /\ \A i, k \in 1..Len(_NAMES) : _NAMES[i] = _NAMES[k] => i = k
  /\ /\ pc = "located"
     /\ ~RLess(query, _FORCES[1])
     /\ ~RLess(_FORCES[Len(_FORCES)], query)
     => /\ DOMAIN bracket = {"text", "X", "Y"}
        /\ bracket.X \in SeqRange(_NAMES)
        /\ bracket.Y \in SeqRange(_NAMES)
        /\ LET lower == IndexOfName(bracket.X)
               upper == IndexOfName(bracket.Y)
           IN /\ lower < upper
              /\ ~RLess(query, _FORCES[lower])
              /\ ~RLess(_FORCES[upper], query)
              /\ RLess(query, _FORCES[Len(_FORCES)]) => RLess(query, _FORCES[upper])

\* the maximum of the table has been located between the last two entries
C14_Witness ==
  /\ pc = "located"
  /\ query = _FORCES[Len(_FORCES)]
  /\ bracket = [text |-> "Between X and Y", X |-> "Atomic Bomb", Y |-> "Nuclear Missile"]

(***************************************************************************)
(* Properties of the force formula                                         *)
(***************************************************************************)
Computed == pc = "computed" /\ "raised" \notin DOMAIN force

\* C8: with every other argument equal, the force with is_nuke is the force
\* without it plus exactly 4000: the same start, movement and multiplier, and
\* no modifier scales the 4000.
C8_NukeBonusAddedLast ==
  Computed =>
    LET twin == compute_base_force([args EXCEPT !.is_nuke = ~args.is_nuke])
        nuke == IF args.is_nuke THEN force ELSE twin
        plain == IF args.is_nuke THEN twin ELSE force
    IN /\ nuke.start = plain.start
       /\ nuke.movement = plain.movement
       /\ nuke.coeff = plain.coeff
       /\ plain.plus = RatZero
       /\ nuke.plus = Rat(4000, 1)

\* a self-destructing nuke: base * 0.5 + 4000
C8_Witness ==
  /\ Computed
  /\ args.is_nuke /\ args.self_destructs
  /\ force.coeff = Rat(1, 2)
  /\ force.plus = Rat(4000, 1)

RECURSIVE Product(_)
Product(factors) ==
  IF factors = <<>> THEN RatOne ELSE RMul(factors[1], Product(Tail(factors)))

\* the factor a percent modifier contributes at the given weight, 1 when it is 0
PercentFactor(num, den, percent) ==
  IF percent = 0 THEN RatOne ELSE Rat(100 * den + num * percent, 100 * den)

\* the factors of the nine modifiers of the ModifierRecord
NineFactors(a) ==
  <<IF a.is_ranged_naval THEN Rat(1, 2) ELSE RatOne,
    IF a.self_destructs THEN Rat(1, 2) ELSE RatOne,
    PercentFactor(1, 2, a.city_attack_bonus),
    PercentFactor(1, 4, a.attack_vs_bonus),
    PercentFactor(1, 2, a.attack_bonus),
    PercentFactor(1, 2, a.defend_bonus),
    IF a.paradrop_able THEN Rat(5, 4) ELSE RatOne,
    IF a.must_set_up THEN Rat(4, 5) ELSE RatOne,
    IF a.extra_attacks = 0 THEN RatOne ELSE Rat(5 + a.extra_attacks, 5)>>

\* C9 as stated: the multiplier of the base is the product of the factors of
\* the nine modifiers of the ModifierRecord, and nothing else changes it.
C9_NineFactorsOnly ==
  Computed => force.coeff = Product(NineFactors(args))

\* C9 as amended: the multiplier of the base is the product of the factors of
\* the nine modifiers and of (1 + 0.5 * terrain_bonus / 100) when the
\* terrain_bonus argument is not 0; with terrain_bonus = 0 it is the product of
\* the nine factors alone.
C9_NineFactorsAndTerrain ==
  Computed =>
    /\ force.coeff
         = RMul(Product(NineFactors(args)), PercentFactor(1, 2, args.terrain_bonus))
    /\ args.terrain_bonus = 0 => force.coeff = Product(NineFactors(args))

\* every one of the nine modifiers is active, the terrain bonus too
C9_Witness ==
  /\ Computed
  /\ args.is_ranged_naval /\ args.self_destructs /\ args.paradrop_able /\ args.must_set_up
  /\ args.city_attack_bonus # 0 /\ args.attack_vs_bonus # 0
  /\ args.attack_bonus # 0 /\ args.defend_bonus # 0
  /\ args.extra_attacks # 0 /\ args.terrain_bonus # 0

\* C10: the start is ranged_strength^1.45 whenever ranged_strength > 0,
\* whatever the melee strength, and strength^1.5 only when ranged_strength is
\* zero or absent; the start is then multiplied by movement^0.3.
C10_StartByRangedStrength ==
  Computed =>
    /\ force.movement = args.movement
    /\ IF args.ranged_strength # None /\ args.ranged_strength > 0
       THEN force.start = [path |-> "ranged", arg |-> args.ranged_strength, exponent |-> "1.45"]
       ELSE force.start = [path |-> "melee", arg |-> args.strength, exponent |-> "1.5"]

\* a unit whose melee strength is above its ranged strength took the ranged start
C10_Witness ==
  /\ Computed
  /\ args.ranged_strength > 0
  /\ args.strength > args.ranged_strength
  /\ force.start.path = "ranged"


(***************************************************************************)
(* Properties of the parser on units that lack keys or match nothing       *)
(***************************************************************************)
\* the keys of the record the parser returns
ParsedKeys ==
  {"city_attack_bonus", "attack_vs_bonus", "attack_bonus", "defend_bonus",
   "paradrop_able", "must_set_up", "self_destructs", "extra_attacks", "is_ranged_naval"}

\* every ability string of the unit, uniques and promotions together
Abilities(u) == SeqRange(Get(u, "uniques", <<>>) \o Get(u, "promotions", <<>>))

\* a unit whose text matches no pattern and that is no ranged ship: its
\* abilities are absent, empty or pattern-free, and its rangedStrength is
\* absent or 0, or its unitType is absent, empty or a land type
NothingToFind(u) ==
  /\ Abilities(u) \subseteq PlainCatalogue
  /\ \/ Get(u, "rangedStrength", 0) = 0
     \/ Get(u, "unitType", <<>>) \in {<<>>, TySword, TyArchery}

\* C11: the parser returns a record with all its keys for every unit, whatever
\* keys the unit lacks; for a unit whose text matches no pattern (absent, empty
\* or malformed) every percent bucket is 0, extra_attacks is 0 and every flag
\* is false.
C11_DefaultsWhenNothingMatches ==
  pc = "parsed" =>
    /\ DOMAIN parsed = ParsedKeys
    /\ \A b \in Buckets : parsed[b] \in Int
    /\ parsed.extra_attacks \in Nat
    /\ \A k \in {"paradrop_able", "must_set_up", "self_destructs", "is_ranged_naval"} :
         parsed[k] \in BOOLEAN
    /\ NothingToFind(unit) =>
         /\ \A b \in Buckets : parsed[b] = 0
         /\ parsed.extra_attacks = 0
         /\ \A k \in ParsedKeys \ (Buckets \cup {"extra_attacks"}) : parsed[k] = FALSE

\* a ship with malformed percent text and neither uniques nor rangedStrength
C11_Witness ==
  /\ pc = "parsed"
  /\ DOMAIN unit = {"promotions", "unitType"}
  /\ unit.unitType = TyWaterRanged
  /\ unit.promotions # <<>>
  /\ NothingToFind(unit)
  /\ \A b \in Buckets : parsed[b] = 0
  /\ ~parsed.is_ranged_naval


\* the sum of the percents of the listed pairs whose tag does, or does not,
\* contain "city"
RECURSIVE CityTagSum(_, _)
CityTagSum(entries, city) ==
  IF entries = <<>> THEN 0
  ELSE (IF Contains(KwCity, entries[1][2]) = city THEN entries[1][1] ELSE 0)
       + CityTagSum(Tail(entries), city)

\* C12: every listed (percent, tag) pair whose tag contains "city" is added to
\* city_attack_bonus and to no other bucket, whatever else its tag or the
\* corpus says: city_attack_bonus is the sum of exactly these pairs and the
\* three other buckets share out the pairs whose tag has no "city".
C12_CityTagGoesToCity ==
  pc = "parsed" =>
    LET text == CorpusText(unit)
        entries == percent_entries(text)
    IN /\ parsed.city_attack_bonus = CityTagSum(entries, TRUE)
       /\ parsed.attack_vs_bonus + parsed.attack_bonus + parsed.defend_bonus
            = CityTagSum(entries, FALSE)
       /\ (\A i \in 1..Len(entries) : Contains(KwCity, entries[i][2])) =>
            /\ parsed.attack_vs_bonus = 0
            /\ parsed.attack_bonus = 0
            /\ parsed.defend_bonus = 0

\* a city tag with "when attacking" and one with "when defending" in one corpus
C12_Witness ==
  /\ pc = "parsed"
  /\ LET entries == percent_entries(CorpusText(unit))
     IN /\ \E i \in 1..Len(entries) :
             Contains(KwCity, entries[i][2]) /\ Contains(KwWhenAttacking, entries[i][2])
        /\ \E i \in 1..Len(entries) :
             Contains(KwCity, entries[i][2]) /\ Contains(KwWhenDefending, entries[i][2])
  /\ parsed.city_attack_bonus = 100
  /\ parsed.attack_bonus = 0
  /\ parsed.defend_bonus = 0


(***************************************************************************)
(* Properties of the harness                                               *)
(***************************************************************************)
\* the call of compute_base_force for a unit and its parsed record
HarnessArgs(u, p) ==
  [strength |-> Get(u, "strength", 0),
   ranged_strength |-> Get(u, "rangedStrength", 0),
   movement |-> Get(u, "movement", 2),
   is_nuke |-> Get(p, "is_nuke", FALSE),
   is_ranged_naval |-> Get(p, "is_ranged_naval", FALSE),
   self_destructs |-> Get(p, "self_destructs", FALSE),
   city_attack_bonus |-> Get(p, "city_attack_bonus", 0),
   attack_vs_bonus |-> Get(p, "attack_vs_bonus", 0),
   attack_bonus |-> Get(p, "attack_bonus", 0),
   defend_bonus |-> Get(p, "defend_bonus", 0),
   paradrop_able |-> Get(p, "paradrop_able", FALSE),
   must_set_up |-> Get(p, "must_set_up", FALSE),
   terrain_bonus |-> 0,
   extra_attacks |-> Get(p, "extra_attacks", 0)]

\* the value of the float that compute_base_force returns
ForceValue(f) ==
  FMulRat(FMul(Pow(f.start.arg, f.start.exponent), Pow(f.movement, "0.3")), f.coeff)
    + FMulRat(FloatScale, f.plus)

\* C13: with the standard options the harness computes the force that
\* compute_base_force computes for the same unit and parsed record: the same
\* start path, the same product of factors, the same value after the nuke
\* addition.
C13_StandardOptionsAreTheFormula ==
  "std" \in DOMAIN harness =>
    LET f == compute_base_force(HarnessArgs(unit, parsed))
    IN /\ harness.std.used[1] = f.start.path
       /\ harness.std.total_mult = f.coeff
       /\ harness.std.base_float = ForceValue(f)


\* the error of one grid entry: abs(final_int - md_expected)
OptionError(u, p, md_expected, opts) ==
  Abs(round_half_up(eval_unit_with_options(u, opts, p).final) - md_expected)

\* C15: find_best_interpretation returns a result that is not None; its
\* best_err is the least error of the 96 grid entries and its options are the
\* first entry with that error; the loop has stopped at that entry when the
\* error is 0 and has tried every entry otherwise; the standard options are an
\* entry of the grid, so best_err is at most the error of the standard
\* evaluation, and the status NO_MATCH is never given.
C15_FirstBestOfTheGrid ==
  /\ Len(option_grid) = 96
  /\ \E i \in 1..Len(option_grid) : option_grid[i] = std_opts
  /\ pc \in {"returned", "reported"} /\ "best_err" \in DOMAIN harness =>
       \A errs \in {[i \in 1..Len(option_grid) |->
                       OptionError(unit, parsed, harness.md_val, option_grid[i])]} :
         \A least \in {SetMin({errs[i] : i \in 1..Len(option_grid)})} :
           \A first \in {SetMin({i \in 1..Len(option_grid) : errs[i] = least})} :
             /\ harness.best_res # NoValue
             /\ harness.best_err = least
             /\ harness.best = option_grid[first]
             /\ harness.best_res.final_int
                  = round_half_up(eval_unit_with_options(unit, harness.best, parsed).final)
             /\ harness.i = IF least = 0 THEN first ELSE Len(option_grid) + 1
             /\ harness.best_err <= Abs(harness.std.delta)
  /\ pc = "reported" => harness.status \in {"OK", "ADJUSTED", "BEST_MATCH"}

\* the search has stopped at an exact match that is neither the first nor the
\* last entry of the grid, after a standard evaluation that was off
C15_Witness ==
  /\ pc = "reported"
  /\ harness.status = "ADJUSTED"
  /\ harness.best_err = 0
  /\ harness.i > 1
  /\ harness.i < Len(option_grid)
  /\ harness.best # std_opts
  /\ Abs(harness.std.delta) > harness.threshold


(***************************************************************************)
(* Properties of the prompt                                                *)
(***************************************************************************)
\* the typed answers whose lowercase form is yes, y or true, and no, n or false
YesAnswers == {AnsYes, AnsUpperY, AnsMixedTrue}

NoAnswers == {AnsNo, AnsUpperN, AnsUpperFalse}

\* C16: get_input_as_bool returns True only on an answer whose lowercase form
\* is yes, y or true and False only on one that is no, n or false; on any other
\* answer it raises ValueError when error_on_bad_input is true, and this is
\* the only way it raises; otherwise it prompts again, so that it is at a
\* further prompt only after unrecognised answers with error_on_bad_input false.
C16_OnlyRecognisedAnswersEnd ==
  /\ pc = "returned" =>
       console.answer \in (IF console.returned THEN YesAnswers ELSE NoAnswers)
  /\ pc = "raised" =>
       /\ console.error_on_bad_input
       /\ console.raised = "ValueError"
       /\ console.answer \notin YesAnswers \cup NoAnswers
  /\ pc = "prompt" /\ "answer" \in DOMAIN console =>
       /\ ~console.error_on_bad_input
       /\ console.answer \notin YesAnswers \cup NoAnswers

====
